---- MODULE Spec2Model ----
(***************************************************************************)
(* Identity assembly of fedora-coreos-pinger (src/minimal/mod.rs).         *)
(*                                                                         *)
(* The machine is a set of read-only inputs (kernel arguments, the aleph   *)
(* version file, the rpm-ostree status and the Afterburn metadata).  A     *)
(* collection run is one call of Identity::new, Identity::try_default or   *)
(* Identity::mock_default, stepped statement by statement; get_data        *)
(* flattens the Identity a run returned.  The outcome of the previous run  *)
(* on the same machine is remembered so that runs can be compared.         *)
(***************************************************************************)
EXTENDS Integers, Sequences, FiniteSets, TLC

VARIABLES
    cmdline,              \* contents of KERNEL_ARGS_FILE
    aleph,                \* contents of OS_ALEPH_VERSION_FILE
    rpm_ostree_status,    \* what the booted-status interface answers
    metadata,             \* contents of AFTERBURN_METADATA
    entry,                \* the function the caller invoked
    cfg_level,            \* the level string the caller supplied
    pc,                   \* position of the run
    level,                \* try_default's parameter
    ctx,                  \* the context Identity::new attaches to an error
    platform,             \* try_default's locals
    original_os_version,
    current_os_version,
    instance_type,
    td_result,            \* what try_default returns
    result,               \* what the caller receives
    data,                 \* what get_data returned for the received Identity
    calls,                \* sub-component queries made by this run, in order
    prev                  \* outcome of the previous run on this machine

machine == <<cmdline, aleph, rpm_ostree_status, metadata>>
locals == <<platform, original_os_version, current_os_version, instance_type>>
run == <<entry, cfg_level, pc, level, ctx, locals, td_result, result, data, calls>>
vars == <<machine, run, prev>>

----------------------------------------------------------------------------
(* Option<String>, Fallible<T> *)

None == <<>>
Some(v) == <<v>>
is_some(o) == Len(o) = 1

Ok(v) == [ok |-> TRUE, v |-> v]
Err(e) == [ok |-> FALSE, err |-> e, context |-> <<>>]
\* ResultExt::context: an error gets the message on top, a value passes through
context(r, msg) == IF r.ok THEN r ELSE [r EXCEPT !.context = <<msg>> \o @]

----------------------------------------------------------------------------
(* Static locations *)

KERNEL_ARGS_FILE == "/proc/cmdline"
OS_ALEPH_VERSION_FILE == "/.coreos-aleph-version.json"
AFTERBURN_METADATA == "/run/metadata/afterburn"

\* the file system the sub-components read
fs == (KERNEL_ARGS_FILE :> cmdline) @@ (OS_ALEPH_VERSION_FILE :> aleph)
        @@ (AFTERBURN_METADATA :> metadata)

----------------------------------------------------------------------------
(* The inputs a machine can present *)

\* values the platform key can carry on the kernel command line
PlatformIds == {"aliyun", "aws", "azure", "gcp", "openstack", "qemu", "vmware", "AWS"}

\* the command line: unreadable, or readable with or without the platform key
Cmdlines == {[readable |-> FALSE, platform_id |-> None],
             [readable |-> TRUE, platform_id |-> None]}
            \cup {[readable |-> TRUE, platform_id |-> Some(p)] : p \in PlatformIds}

\* a structured source: missing, malformed (or lacking the field), or carrying the value
Source(values) == {[state |-> "missing", value |-> ""], [state |-> "malformed", value |-> ""]}
                  \cup {[state |-> "ok", value |-> v] : v \in values}

Alephs == Source({"30.20190923.dev.2-2"})
Statuses == Source({"31.20200108.3.0"})
Metadatas == Source({"m5.large"})

\* the level strings a caller may supply
Levels == {"minimal", "full", "", "Minimal", "debug"}

----------------------------------------------------------------------------
(* Sub-components *)

DefaultPlatform == "metal"

to_lowercase(s) == IF s = "AWS" THEN "aws" ELSE s

\* platform::get_platform
get_platform(path) ==
    IF ~fs[path].readable THEN Err("IOError")
    ELSE IF fs[path].platform_id = None THEN Ok(DefaultPlatform)
    ELSE Ok(to_lowercase(fs[path].platform_id[1]))

\* os_release::read_original_os_version
read_original_os_version(path) ==
    CASE fs[path].state = "missing" -> Err("IOError")
      [] fs[path].state = "malformed" -> Err("ParseError")
      [] OTHER -> Ok(fs[path].value)

\* rpm_ostree::booted: the booted deployment, of which the caller takes .version
booted ==
    CASE rpm_ostree_status.state = "missing" -> Err("ExternalQueryError")
      [] rpm_ostree_status.state = "malformed" -> Err("ParseError")
      [] OTHER -> Ok([version |-> rpm_ostree_status.value])

\* instance_type::read_instance_type
read_instance_type(path, p) ==
    CASE fs[path].state = "missing" -> Err("IOError")
      [] fs[path].state = "malformed" -> Err("ParseError")
      [] OTHER -> Ok(fs[path].value)

----------------------------------------------------------------------------
(* Identity *)

Identity(l, p, o, c, i) ==
    [level |-> l, platform |-> p, original_os_version |-> o,
     current_os_version |-> c, instance_type |-> i]

NoResult == [ok |-> FALSE, err |-> "", context |-> <<>>]
NoPrev == [entry |-> "none"]

Init ==
    /\ cmdline \in Cmdlines
    /\ aleph \in Alephs
    /\ rpm_ostree_status \in Statuses
    /\ metadata \in Metadatas
    /\ entry = "none"
    /\ cfg_level = ""
    /\ pc = "idle"
    /\ level = ""
    /\ ctx = None
    /\ platform = ""
    /\ original_os_version = ""
    /\ current_os_version = ""
    /\ instance_type = None
    /\ td_result = NoResult
    /\ result = NoResult
    /\ data = None
    /\ calls = <<>>
    /\ prev = NoPrev

----------------------------------------------------------------------------
(* Identity::new *)

\* new_match with the "full" pattern left out of the first arm
new_match_minimal_only(collecting_level) ==
    IF collecting_level \in {"minimal"}
    THEN [level |-> collecting_level,
          context |-> "failed to build '" \o collecting_level \o "' identity"]
    ELSE [level |-> "minimal",
          context |-> "failed to build 'minimal' identity"]

\* new_match with the fallback arm formatting the configured level
new_match_raw_context(collecting_level) ==
    IF collecting_level \in {"minimal", "full"}
    THEN [level |-> collecting_level,
          context |-> "failed to build '" \o collecting_level \o "' identity"]
    ELSE [level |-> "minimal",
          context |-> "failed to build '" \o collecting_level \o "' identity"]

\* the match on cfg.level: the level handed to try_default and the context
\* attached to its error
new_match(collecting_level) ==
    IF collecting_level \in {"minimal", "full"}
    THEN [level |-> collecting_level,
          context |-> "failed to build '" \o collecting_level \o "' identity"]
    ELSE [level |-> "minimal",
          context |-> "failed to build 'minimal' identity"]

\* what a finished run leaves behind
Summary == [entry |-> entry, cfg_level |-> cfg_level, calls |-> calls,
            result |-> result, data |-> data]

\* a caller starts a run; the machine is as the previous run left it
Begin(e, l) ==
    /\ pc \in {"idle", "done"}
    /\ prev' = IF pc = "done" THEN Summary ELSE prev
    /\ entry' = e
    /\ cfg_level' = l
    /\ platform' = ""
    /\ original_os_version' = ""
    /\ current_os_version' = ""
    /\ instance_type' = None
    /\ td_result' = NoResult
    /\ data' = None
    /\ calls' = <<>>
    /\ UNCHANGED machine

New(l) ==
    /\ Begin("new", l)
    /\ level' = new_match(l).level
    /\ ctx' = Some(new_match(l).context)
    /\ result' = NoResult
    /\ pc' = "l48"

\* try_default is public: a caller may pass it any level
TryDefault(l) ==
    /\ Begin("try_default", l)
    /\ level' = l
    /\ ctx' = None
    /\ result' = NoResult
    /\ pc' = "l48"

----------------------------------------------------------------------------
(* Identity::try_default *)

\* is_cloud_platform with the openstack pattern left out
is_cloud_platform_no_openstack(p) == p \in {"aliyun", "aws", "azure", "gcp"}

\* is_cloud_platform with a hypervisor among the patterns
is_cloud_platform_with_qemu(p) ==
    p \in {"aliyun", "aws", "azure", "gcp", "openstack", "qemu"}

\* the arms of the match on platform that look the instance type up
is_cloud_platform(p) == p \in {"aliyun", "aws", "azure", "gcp", "openstack"}

\* the level an Identity is built with
identity_level(l) == IF l \in {"minimal", "full"} THEN l ELSE "minimal"

\* build_identity with the two version fields exchanged
build_identity_swapped(l, p, o, c, i) == Identity(identity_level(l), p, c, o, i)

\* the struct literal
build_identity(l, p, o, c, i) == Identity(identity_level(l), p, o, c, i)

\* GetPlatform going on to the instance-type match, past the version reads
GetPlatformSkipVersions ==
    /\ pc = "l48"
    /\ LET r == get_platform(KERNEL_ARGS_FILE) IN
        /\ calls' = Append(calls, <<"get_platform", KERNEL_ARGS_FILE>>)
        /\ IF r.ok
           THEN platform' = r.v /\ pc' = "l51" /\ UNCHANGED td_result
           ELSE td_result' = r /\ pc' = "ret" /\ UNCHANGED platform
    /\ UNCHANGED <<machine, entry, cfg_level, level, ctx, original_os_version,
                   current_os_version, instance_type, result, data, prev>>

GetPlatform ==
    /\ pc = "l48"
    /\ LET r == get_platform(KERNEL_ARGS_FILE) IN
        /\ calls' = Append(calls, <<"get_platform", KERNEL_ARGS_FILE>>)
        /\ IF r.ok
           THEN platform' = r.v /\ pc' = "l49" /\ UNCHANGED td_result
           ELSE td_result' = r /\ pc' = "ret" /\ UNCHANGED platform
    /\ UNCHANGED <<machine, entry, cfg_level, level, ctx, original_os_version,
                   current_os_version, instance_type, result, data, prev>>

\* ReadOriginalOsVersion with unwrap_or_default in place of the ? operator
ReadOriginalOsVersionOrDefault ==
    /\ pc = "l49"
    /\ LET r == read_original_os_version(OS_ALEPH_VERSION_FILE) IN
        /\ calls' = Append(calls, <<"read_original_os_version", OS_ALEPH_VERSION_FILE>>)
        /\ original_os_version' = IF r.ok THEN r.v ELSE ""
        /\ pc' = "l50"
    /\ UNCHANGED <<machine, entry, cfg_level, level, ctx, platform, td_result,
                   current_os_version, instance_type, result, data, prev>>

ReadOriginalOsVersion ==
    /\ pc = "l49"
    /\ LET r == read_original_os_version(OS_ALEPH_VERSION_FILE) IN
        /\ calls' = Append(calls, <<"read_original_os_version", OS_ALEPH_VERSION_FILE>>)
        /\ IF r.ok
           THEN original_os_version' = r.v /\ pc' = "l50" /\ UNCHANGED td_result
           ELSE td_result' = r /\ pc' = "ret" /\ UNCHANGED original_os_version
    /\ UNCHANGED <<machine, entry, cfg_level, level, ctx, platform,
                   current_os_version, instance_type, result, data, prev>>

Booted ==
    /\ pc = "l50"
    /\ LET r == booted IN
        /\ calls' = Append(calls, <<"booted">>)
        /\ IF r.ok
           THEN current_os_version' = r.v.version /\ pc' = "l51" /\ UNCHANGED td_result
           ELSE td_result' = r /\ pc' = "ret" /\ UNCHANGED current_os_version
    /\ UNCHANGED <<machine, entry, cfg_level, level, ctx, platform,
                   original_os_version, instance_type, result, data, prev>>

\* InstanceType looking the instance type up at level "full" only
InstanceTypeFullOnly ==
    /\ pc = "l51"
    /\ \/ /\ is_cloud_platform(platform) /\ level = "full"
          /\ LET r == read_instance_type(AFTERBURN_METADATA, platform) IN
              /\ calls' = Append(calls, <<"read_instance_type", AFTERBURN_METADATA, platform>>)
              /\ IF r.ok
                 THEN instance_type' = Some(r.v) /\ pc' = "l56" /\ UNCHANGED td_result
                 ELSE td_result' = r /\ pc' = "ret" /\ UNCHANGED instance_type
       \/ /\ ~(is_cloud_platform(platform) /\ level = "full")
          /\ instance_type' = None
          /\ pc' = "l56"
          /\ UNCHANGED <<calls, td_result>>
    /\ UNCHANGED <<machine, entry, cfg_level, level, ctx, platform,
                   original_os_version, current_os_version, result, data, prev>>

InstanceType ==
    /\ pc = "l51"
    /\ \/ /\ is_cloud_platform(platform)
          /\ LET r == read_instance_type(AFTERBURN_METADATA, platform) IN
              /\ calls' = Append(calls, <<"read_instance_type", AFTERBURN_METADATA, platform>>)
              /\ IF r.ok
                 THEN instance_type' = Some(r.v) /\ pc' = "l56" /\ UNCHANGED td_result
                 ELSE td_result' = r /\ pc' = "ret" /\ UNCHANGED instance_type
       \/ /\ ~is_cloud_platform(platform)
          /\ instance_type' = None
          /\ pc' = "l56"
          /\ UNCHANGED <<calls, td_result>>
    /\ UNCHANGED <<machine, entry, cfg_level, level, ctx, platform,
                   original_os_version, current_os_version, result, data, prev>>

Assemble ==
    /\ pc = "l56"
    /\ td_result' = Ok(build_identity(level, platform, original_os_version,
                                      current_os_version, instance_type))
    /\ pc' = "ret"
    /\ UNCHANGED <<machine, entry, cfg_level, level, ctx, locals, result, data,
                   calls, prev>>

\* try_default returns: to Identity::new, which adds its context to an error,
\* or to the caller that invoked it directly
Return ==
    /\ pc = "ret"
    /\ \/ /\ entry = "new"
          /\ result' = context(td_result, ctx[1])
       \/ /\ entry = "try_default"
          /\ result' = td_result
    /\ pc' = "done"
    /\ UNCHANGED <<machine, entry, cfg_level, level, ctx, locals, td_result,
                   data, calls, prev>>

----------------------------------------------------------------------------
(* Identity::mock_default and Identity::get_data *)

mock_default(l) ==
    CASE l = "minimal" -> Identity("minimal", "mock-qemu", "30.20190923.dev.2-2",
                                   "mock-os-version", Some("mock-instance-type"))
      [] l = "full" -> Identity("full", "mock-gcp", "30.20190923.dev.2-2",
                                "mock-os-version", Some("mock-instance-type"))
      [] OTHER -> Identity("minimal", "mock-qemu", "30.20190923.dev.2-2",
                           "mock-os-version", Some("mock-instance-type"))

MockDefault(l) ==
    /\ Begin("mock_default", l)
    /\ level' = l
    /\ ctx' = None
    /\ result' = Ok(mock_default(l))
    /\ pc' = "done"

\* get_data inserting instance_type only when there is one
get_data_skip_none(self) ==
    ("level" :> self.level)
    @@ ("platform" :> self.platform)
    @@ ("original_os_version" :> self.original_os_version)
    @@ ("current_os_version" :> self.current_os_version)
    @@ (IF is_some(self.instance_type)
        THEN ("instance_type" :> self.instance_type[1]) ELSE <<>>)

\* get_data rendering a missing instance type as its Debug form
get_data_debug_none(self) ==
    ("level" :> self.level)
    @@ ("platform" :> self.platform)
    @@ ("original_os_version" :> self.original_os_version)
    @@ ("current_os_version" :> self.current_os_version)
    @@ ("instance_type" :> IF is_some(self.instance_type)
                           THEN self.instance_type[1] ELSE "None")

get_data(self) ==
    ("level" :> self.level)
    @@ ("platform" :> self.platform)
    @@ ("original_os_version" :> self.original_os_version)
    @@ ("current_os_version" :> self.current_os_version)
    @@ ("instance_type" :> IF is_some(self.instance_type)
                           THEN self.instance_type[1] ELSE "")

GetData ==
    /\ pc = "done"
    /\ result.ok
    /\ data' = Some(get_data(result.v))
    /\ UNCHANGED <<machine, entry, cfg_level, pc, level, ctx, locals, td_result,
                   result, calls, prev>>

----------------------------------------------------------------------------

Next ==
    \/ \E l \in Levels : New(l)
    \/ \E l \in Levels : TryDefault(l)
    \/ \E l \in Levels : MockDefault(l)
    \/ GetPlatform
    \/ ReadOriginalOsVersion
    \/ Booted
    \/ InstanceType
    \/ Assemble
    \/ Return
    \/ GetData

Spec == Init /\ [][Next]_vars

TypeOK ==
    /\ pc \in {"idle", "l48", "l49", "l50", "l51", "l56", "ret", "done"}
    /\ entry \in {"none", "new", "try_default", "mock_default"}
    /\ cfg_level \in Levels

----------------------------------------------------------------------------
(* get_data over Identities built by struct literal: the fields are        *)
(* pub(crate), so the crate can hold any combination of values.            *)

Identities ==
    {Identity(l, p, o, c, i) :
        l \in Levels,
        p \in {"qemu", "gcp", "mock-qemu"},
        o \in {"30.20190923.dev.2-2", ""},
        c \in {"31.20200108.3.0", "mock-os-version"},
        i \in {None, Some("m5.large"), Some("mock-instance-type")}}

InitData ==
    /\ cmdline = [readable |-> TRUE, platform_id |-> None]
    /\ aleph = [state |-> "missing", value |-> ""]
    /\ rpm_ostree_status = [state |-> "missing", value |-> ""]
    /\ metadata = [state |-> "missing", value |-> ""]
    /\ entry = "literal"
    /\ cfg_level = ""
    /\ pc = "done"
    /\ level = ""
    /\ ctx = None
    /\ platform = ""
    /\ original_os_version = ""
    /\ current_os_version = ""
    /\ instance_type = None
    /\ td_result = NoResult
    /\ result \in {Ok(id) : id \in Identities}
    /\ data = None
    /\ calls = <<>>
    /\ prev = NoPrev

NextData == GetData

SpecData == InitData /\ [][NextData]_vars

----------------------------------------------------------------------------
(* Vocabulary of the properties *)

RecognizedCloudProviders == {"aliyun", "aws", "azure", "gcp", "openstack"}

FiveKeys == {"level", "platform", "original_os_version", "current_os_version",
             "instance_type"}

\* a run of the assembler, as opposed to a mock or a literal
AssemblerRun == entry \in {"new", "try_default"}

\* the run is over and the caller holds its outcome
Finished == AssemblerRun /\ pc = "done"

\* what each source of this machine answers when queried
PlatformAnswer == get_platform(KERNEL_ARGS_FILE)
OriginalAnswer == read_original_os_version(OS_ALEPH_VERSION_FILE)
CurrentAnswer == booted
InstanceAnswer == read_instance_type(AFTERBURN_METADATA, PlatformAnswer.v)

OnCloud == PlatformAnswer.ok /\ PlatformAnswer.v \in RecognizedCloudProviders

PlatformQuery == <<"get_platform", KERNEL_ARGS_FILE>>
OriginalQuery == <<"read_original_os_version", OS_ALEPH_VERSION_FILE>>
CurrentQuery == <<"booted">>
InstanceQuery == <<"read_instance_type", AFTERBURN_METADATA, PlatformAnswer.v>>

\* the queries a run that stops at the first failure makes on this machine
QueriesUpToFirstFailure ==
    IF ~PlatformAnswer.ok THEN <<PlatformQuery>>
    ELSE IF ~OriginalAnswer.ok THEN <<PlatformQuery, OriginalQuery>>
    ELSE IF ~CurrentAnswer.ok \/ ~OnCloud
         THEN <<PlatformQuery, OriginalQuery, CurrentQuery>>
    ELSE <<PlatformQuery, OriginalQuery, CurrentQuery, InstanceQuery>>

\* the error of the first step that fails on this machine, if one does
FirstFailure ==
    IF ~PlatformAnswer.ok THEN Some(PlatformAnswer.err)
    ELSE IF ~OriginalAnswer.ok THEN Some(OriginalAnswer.err)
    ELSE IF ~CurrentAnswer.ok THEN Some(CurrentAnswer.err)
    ELSE IF OnCloud /\ ~InstanceAnswer.ok THEN Some(InstanceAnswer.err)
    ELSE None

IsPrefix(s, t) == Len(s) <= Len(t) /\ SubSeq(t, 1, Len(s)) = s

NormalizedLevel(l) == IF l = "minimal" \/ l = "full" THEN l ELSE "minimal"

InstanceLookups == {i \in DOMAIN calls : calls[i][1] = "read_instance_type"}

----------------------------------------------------------------------------
(* C1: in every Identity that try_default (directly or through new)        *)
(* returns, instance_type is Some exactly when platform is one of aliyun,  *)
(* aws, azure, gcp, openstack, whatever platform the detector returned and *)
(* whatever the level.                                                     *)
C1_InstanceTypeIffCloud ==
    /\ (AssemblerRun /\ pc \in {"ret", "done"} /\ td_result.ok) =>
          (is_some(td_result.v.instance_type)
              <=> td_result.v.platform \in RecognizedCloudProviders)
    /\ (Finished /\ result.ok) =>
          (is_some(result.v.instance_type)
              <=> result.v.platform \in RecognizedCloudProviders)

\* an openstack machine got its instance type, from new and from a direct
\* call of try_default with an unrecognized level
C1_Witness ==
    /\ Finished /\ entry = "new" /\ result.ok
    /\ result.v.platform = "openstack"
    /\ is_some(result.v.instance_type)
    /\ prev.entry = "try_default" /\ prev.cfg_level = "debug" /\ prev.result.ok
    /\ is_some(prev.result.v.instance_type)

\* the other side: a vmware machine got none
C1_NonCloudReached ==
    /\ Finished /\ result.ok /\ result.v.platform = "vmware"
    /\ result.v.instance_type = None

(* C2: an Identity that Identity::new returns has level "minimal" or       *)
(* "full": the configured level when it is exactly one of the two, and     *)
(* "minimal" for every other input.                                        *)
C2_LevelNormalized ==
    (Finished /\ entry = "new" /\ result.ok) =>
        /\ result.v.level \in {"minimal", "full"}
        /\ cfg_level \in {"minimal", "full"} => result.v.level = cfg_level
        /\ cfg_level \notin {"minimal", "full"} => result.v.level = "minimal"

C2_Witness ==
    /\ Finished /\ entry = "new" /\ result.ok
    /\ cfg_level = "Minimal" /\ result.v.level = "minimal"
    /\ prev.entry = "new" /\ prev.cfg_level = "full" /\ prev.result.ok
    /\ prev.result.v.level = "full"

(* C3: a run ends Assembled or Failed.  It queries the sources in the      *)
(* order platform, original version, current version, instance type (the   *)
(* last on a cloud platform only), each at most once, and stops at the     *)
(* first that fails: the caller then gets that error and no Identity.      *)
C3_FirstFailureAborts ==
    /\ AssemblerRun => IsPrefix(calls, QueriesUpToFirstFailure)
    /\ Finished =>
        /\ calls = QueriesUpToFirstFailure
        /\ result.ok <=> FirstFailure = None
        /\ ~result.ok => result.err = FirstFailure[1]
        /\ result.ok => DOMAIN result.v = FiveKeys

\* the marker file is missing on an aws machine: IOError, and neither the
\* booted-status query nor the metadata lookup was made
C3_Witness ==
    /\ Finished /\ entry = "new"
    /\ OnCloud /\ aleph.state = "missing"
    /\ ~result.ok /\ result.err = "IOError"
    /\ calls = <<PlatformQuery, OriginalQuery>>

(* C4: on a machine whose detected platform is outside the cloud-provider  *)
(* set a run never queries the instance type, so the state of the metadata *)
(* source cannot fail it, and an Identity it returns has no instance type. *)
C4_NoLookupOffCloud ==
    (AssemblerRun /\ PlatformAnswer.ok /\ ~OnCloud) =>
        /\ InstanceLookups = {}
        /\ (Finished /\ OriginalAnswer.ok /\ CurrentAnswer.ok) => result.ok
        /\ (Finished /\ result.ok) => result.v.instance_type = None

\* a qemu machine without metadata: the run succeeded, without instance type
C4_Witness ==
    /\ Finished /\ PlatformAnswer.ok /\ PlatformAnswer.v = "qemu"
    /\ metadata.state = "missing"
    /\ result.ok /\ result.v.instance_type = None
    /\ Len(calls) = 3

(* C5: on a cloud platform whose metadata yields t, with the platform and  *)
(* both versions read, the Identity carries Some(t) and the platform,      *)
(* original version and current version exactly as the sources gave them.  *)
C5_FieldsAsReturned ==
    (Finished /\ OnCloud /\ OriginalAnswer.ok /\ CurrentAnswer.ok /\ InstanceAnswer.ok) =>
        /\ result.ok
        /\ result.v.instance_type = Some(InstanceAnswer.v)
        /\ result.v.platform = PlatformAnswer.v
        /\ result.v.original_os_version = OriginalAnswer.v
        /\ result.v.current_os_version = CurrentAnswer.v.version

C5_Witness ==
    /\ Finished /\ entry = "new" /\ cfg_level = "full"
    /\ cmdline.platform_id = Some("AWS")
    /\ result.ok
    /\ result.v = Identity("full", "aws", "30.20190923.dev.2-2", "31.20200108.3.0",
                           Some("m5.large"))

(* C6: for every Identity, whatever its level, platform and instance type, *)
(* get_data returns a mapping with exactly the five keys level, platform,  *)
(* original_os_version, current_os_version, instance_type.                 *)
C6_FiveKeys ==
    data # None => DOMAIN data[1] = FiveKeys

\* flattened: an Identity of an unrecognized level without instance type
C6_Witness ==
    /\ data # None
    /\ result.v.level = "debug"
    /\ result.v.instance_type = None
    /\ Cardinality(DOMAIN data[1]) = 5

(* C7: get_data maps level, platform, original_os_version and              *)
(* current_os_version to the fields of those names, instance_type to t for *)
(* Some(t) and to the empty string for None, and leaves the Identity as it *)
(* was.                                                                    *)
C7_ValuesAsFields ==
    /\ [](data # None =>
            /\ FiveKeys \subseteq DOMAIN data[1]
            /\ data[1]["level"] = result.v.level
            /\ data[1]["platform"] = result.v.platform
            /\ data[1]["original_os_version"] = result.v.original_os_version
            /\ data[1]["current_os_version"] = result.v.current_os_version
            /\ is_some(result.v.instance_type) =>
                  data[1]["instance_type"] = result.v.instance_type[1]
            /\ result.v.instance_type = None => data[1]["instance_type"] = "")
    /\ [][data' # data => result' = result]_vars

\* the scenario of the spec: mock-qemu without instance type flattens to ""
C7_Witness ==
    /\ data # None
    /\ result.v.platform = "mock-qemu"
    /\ result.v.instance_type = None
    /\ data[1]["instance_type"] = ""
    /\ data[1]["original_os_version"] # data[1]["current_os_version"]

(* C8: an error that Identity::new returns is the error of the failing     *)
(* sub-component under one context message, which names the level being    *)
(* built: the configured level when it is minimal or full, and minimal     *)
(* (not the raw input) otherwise.                                          *)
C8_ErrorNamesLevel ==
    (Finished /\ entry = "new" /\ ~result.ok) =>
        /\ result.context =
              <<"failed to build '" \o NormalizedLevel(cfg_level) \o "' identity">>
        /\ result.err = td_result.err
        /\ result.err = FirstFailure[1]

C8_Witness ==
    /\ Finished /\ entry = "new" /\ cfg_level = "debug"
    /\ ~result.ok /\ result.err = "ExternalQueryError"
    /\ result.context = <<"failed to build 'minimal' identity">>
    /\ prev.entry = "new" /\ prev.cfg_level = "full" /\ ~prev.result.ok
    /\ prev.result.context = <<"failed to build 'full' identity">>

(* C9: a run goes through Start, PlatformResolved, VersionsResolved, then  *)
(* InstanceTypeResolved or Skipped, then Assembled, in that order, or      *)
(* leaves to Failed.  The instance type is looked up only after the        *)
(* platform and both versions were read; both versions are read whatever   *)
(* the level and the platform; Assembled is reached only with the          *)
(* platform and both versions read in that run.                            *)
AsmState ==
    CASE ~AssemblerRun -> "NotRunning"
      [] pc = "l48" -> "Start"
      [] pc \in {"l49", "l50"} -> "PlatformResolved"
      [] pc = "l51" -> "VersionsResolved"
      [] pc = "l56" -> IF InstanceLookups # {} THEN "InstanceTypeResolved" ELSE "Skipped"
      [] OTHER -> IF td_result.ok THEN "Assembled" ELSE "Failed"

AsmOrder ==
    {<<"Start", "PlatformResolved">>,
     <<"PlatformResolved", "PlatformResolved">>,
     <<"PlatformResolved", "VersionsResolved">>,
     <<"VersionsResolved", "InstanceTypeResolved">>,
     <<"VersionsResolved", "Skipped">>,
     <<"InstanceTypeResolved", "Assembled">>,
     <<"Skipped", "Assembled">>,
     <<"Start", "Failed">>,
     <<"PlatformResolved", "Failed">>,
     <<"VersionsResolved", "Failed">>,
     <<"Assembled", "Assembled">>,
     <<"Failed", "Failed">>}
    \cup ({"NotRunning", "Assembled", "Failed"} \X {"Start", "NotRunning"})

VersionsRead ==
    /\ Len(calls) >= 3
    /\ SubSeq(calls, 1, 3) = <<PlatformQuery, OriginalQuery, CurrentQuery>>
    /\ PlatformAnswer.ok /\ platform = PlatformAnswer.v
    /\ OriginalAnswer.ok /\ original_os_version = OriginalAnswer.v
    /\ CurrentAnswer.ok /\ current_os_version = CurrentAnswer.v.version

AsmOrderKept == <<AsmState, AsmState'>> \in AsmOrder

C9_StatesInOrder ==
    /\ [][AsmOrderKept]_vars
    /\ [](AssemblerRun =>
            /\ InstanceLookups # {} => (InstanceLookups = {4} /\ VersionsRead)
            /\ AsmState \in {"VersionsResolved", "InstanceTypeResolved", "Skipped",
                             "Assembled"} => VersionsRead
            /\ (pc = "l50" \/ (pc = "done" /\ PlatformAnswer.ok)) =>
                  (Len(calls) >= 2 /\ calls[2] = OriginalQuery)
            /\ AsmState = "InstanceTypeResolved" => is_some(instance_type)
            /\ AsmState = "Skipped" => instance_type = None)

\* Assembled at level full through InstanceTypeResolved
C9_Witness ==
    /\ AsmState = "Assembled" /\ pc = "done"
    /\ cfg_level = "full"
    /\ InstanceLookups = {4}
    /\ VersionsRead

(* C10: on the same machine a run at level "full" and a run at level       *)
(* "minimal" make the same queries in the same order, both fail (with the  *)
(* same error) or both succeed, and on success their Identities and their  *)
(* flattened mappings differ in the value of level only.                   *)
C10_FullAsMinimal ==
    (/\ Finished
     /\ prev.entry \in {"new", "try_default"}
     /\ {cfg_level, prev.cfg_level} = {"minimal", "full"}) =>
        /\ calls = prev.calls
        /\ result.ok = prev.result.ok
        /\ ~result.ok => result.err = prev.result.err
        /\ result.ok =>
            /\ result.v.level = cfg_level
            /\ prev.result.v.level = prev.cfg_level
            /\ [result.v EXCEPT !.level = ""] = [prev.result.v EXCEPT !.level = ""]
        /\ (data # None /\ prev.data # None) =>
            /\ DOMAIN data[1] = DOMAIN prev.data[1]
            /\ \A k \in DOMAIN data[1] \ {"level"} : data[1][k] = prev.data[1][k]
            /\ data[1]["level"] = cfg_level
            /\ prev.data[1]["level"] = prev.cfg_level

\* a gcp machine assembled and flattened at minimal, then at full
C10_Witness ==
    /\ Finished /\ entry = "new" /\ cfg_level = "full"
    /\ prev.entry = "new" /\ prev.cfg_level = "minimal"
    /\ result.ok /\ prev.result.ok
    /\ result.v.platform = "gcp"
    /\ data # None /\ prev.data # None
    /\ Len(calls) = 4

====
